---- MODULE Spec2Model ----
(***************************************************************************)
(* Model of ML/demucs_server.py: the DemucsServer streaming engine.        *)
(*                                                                         *)
(* Threads: the main thread (start: load_model, then the accept loop), the *)
(* processing thread (processing_loop) and one handler thread per          *)
(* accepted connection (handle_client).  Every `with self.buffer_lock`     *)
(* block is one atomic action, possible when the lock is free and leaving  *)
(* it free (the blocks hold no blocking call, so a block that has the lock *)
(* runs to its end); the code between two lock blocks touches              *)
(* only thread-local data and the blocking socket and engine calls.  The   *)
(* reads of self.running and the socket writes are actions of their own;   *)
(* the socket reads of a request touch only the connection and are part of *)
(* the action of the lock block that serves the request.                   *)
(*                                                                         *)
(* A frame is a pair <<left, right>> of sample values.  Sample values are  *)
(* integers in units of 1/FadeDen, so that one multiplication by a value   *)
(* of the fade curve i/(overlap_samples-1) is exact.                       *)
(***************************************************************************)
EXTENDS Integers, Sequences, FiniteSets, TLC

(* ------------------------------ bounds -------------------------------- *)
\* Scaled-down configuration (the program uses 44100 Hz and 3.0 s chunks).
SAMPLE_RATE == 4
CHUNK_DURATION == 1
\* Scaled-down pull batch cap (the program uses 4096 frames).
PULL_MAX == 2
\* Largest push a client declares, frames the clients send in total,
\* and number of connections the listener accepts.
MaxPush == 2
MaxFrames == 6
NumConns == 2
\* Largest OVERLAP setting considered, in half seconds.
MaxOverlap2 == 2

(* --------------------------- program constants ------------------------ *)
CHANNELS == 2
BYTES_PER_SAMPLE == 4
\* OVERLAP = 0.5, in half seconds
OVERLAP2 == 1

Conns == 1..NumConns

\* The module-level settings the object is constructed from:
\* duration = CHUNK_DURATION in seconds, overlap2 = OVERLAP in half seconds.
VARIABLE cfg

\* the settings of the program
ProgramConfig == [duration |-> CHUNK_DURATION, overlap2 |-> OVERLAP2]
\* the settings one can write in their place
Configs == [duration : 0..CHUNK_DURATION, overlap2 : 1..MaxOverlap2]

\* int(CHUNK_DURATION * SAMPLE_RATE)
chunk_samples == cfg.duration * SAMPLE_RATE
\* int(OVERLAP * SAMPLE_RATE)
overlap_samples == (cfg.overlap2 * SAMPLE_RATE) \div 2
hop_samples == chunk_samples - overlap_samples

\* np.linspace(0, 1, n): value i/(n-1) at 0-based index i, and [0.] if n = 1.
\* fade_in holds the numerators (1-based index), FadeDen the denominator.
FadeDen == IF overlap_samples > 1 THEN overlap_samples - 1 ELSE 1
fade_in == [i \in 1..overlap_samples |-> IF overlap_samples > 1 THEN i - 1 ELSE 0]

Min(a, b) == IF a < b THEN a ELSE b

\* Python slices a[:k] and a[k:] of a sequence (k >= 0).
Take(s, k) == SubSeq(s, 1, Min(k, Len(s)))
Drop(s, k) == SubSeq(s, Min(k, Len(s)) + 1, Len(s))
\* a[-k:] for k > 0
LastN(s, k) == Drop(s, Len(s) - Min(k, Len(s)))

\* (fault: the frames are read but stay in the deque)
PopLeftKeeps(buf, k) == buf
\* a deque after k poplefts, and the k elements they return
PopLeft(buf, k) == Drop(buf, k)
\* (fault: the elements are taken from the right end)
PoppedRight(buf, k) == LastN(buf, k)
Popped(buf, k) == Take(buf, k)

\* np.zeros((n, CHANNELS))
Zeros(n) == [i \in 1..n |-> <<0, 0>>]

\* one frame times fade_in[i], per channel
Scale(f, i) == <<(f[1] * fade_in[i]) \div FadeDen, (f[2] * fade_in[i]) \div FadeDen>>

\* (fault: the curve, reversed, is applied to the last overlap_samples frames)
ApplyFadeTail(a) ==
    [i \in 1..Len(a) |->
        IF i > Len(a) - overlap_samples THEN Scale(a[i], Len(a) - i + 1) ELSE a[i]]
\* processed[:overlap_samples, ch] *= fade_in   for every channel
ApplyFade(a) ==
    [i \in 1..Len(a) |-> IF i <= overlap_samples THEN Scale(a[i], i) ELSE a[i]]

\* np.frombuffer(audio_data, float32): the whole 4-byte words among nbytes bytes
FromBuffer(words, nbytes) == Take(words, nbytes \div BYTES_PER_SAMPLE)
\* .reshape(-1, CHANNELS): consecutive words pair up into frames
Reshape(words) ==
    [i \in 1..(Len(words) \div CHANNELS) |-> <<words[CHANNELS*i - 1], words[CHANNELS*i]>>]
\* output_data.astype(np.float32).tobytes(): frames back to interleaved words
ToWords(frames) ==
    [i \in 1..(CHANNELS * Len(frames)) |-> frames[(i + 1) \div CHANNELS][2 - (i % CHANNELS)]]

\* The external separation engine on one chunk: same length, per outcome.
Engines == {"raise", "identity", "separate"}
apply_model(audio, engine) ==
    IF engine = "separate" THEN [i \in 1..Len(audio) |-> <<0 - audio[i][1], 0 - audio[i][2]>>]
    ELSE audio

\* (fault: a failing engine yields silence instead of the input)
process_audio_silence(audio, mdl, engine) ==
    IF mdl = "None" THEN audio
    ELSE IF engine = "raise" THEN [i \in 1..Len(audio) |-> <<0, 0>>]
    ELSE apply_model(audio, engine)

\* process_audio: the input array itself when there is no model or the engine
\* raises, the engine's result otherwise.
process_audio(audio, mdl, engine) ==
    IF mdl = "None" THEN audio
    ELSE IF engine = "raise" THEN audio
    ELSE apply_model(audio, engine)
\* whether process_audio returned its argument (the same array object)
ReturnsInput(mdl, engine) == mdl = "None" \/ engine = "raise"

None == [set |-> FALSE, val |-> <<>>]
Some(v) == [set |-> TRUE, val |-> v]

VARIABLES
    main_pc,          \* start(): "start", "failed", "accept", "closed"
    model,            \* self.model: "None", "unready" (set, load failed) or "loaded"
    running,          \* self.running
    buffer_lock,      \* self.buffer_lock: "free" or the thread holding it
    inFlightAtStop,   \* history: an engine call was in flight when running was cleared
    input_buffer,     \* self.input_buffer
    output_buffer,    \* self.output_buffer
    prev_overlap,     \* self.prev_overlap (None or Some(frames))
    pl_pc,            \* processing_loop: "off","while","len","pop","process","append","stopped","crashed"
    full_chunk,       \* processing_loop local
    same_array,       \* processing_loop: processed is the array full_chunk
    engine_used,      \* outcome of the engine call of the chunk in flight
    output_chunk,     \* processing_loop local
    hpc,              \* handle_client per connection: "none","while","recv",
                      \*   "hb_send","pull_send","ack","closed"
    num_samples,      \* handle_client local
    payload,          \* the words the peer sends after a push header
    samples,          \* handle_client local
    output_available, \* handle_client local
    output_data,      \* handle_client local
    nextWord,         \* peers: number of the next sample word to be sent
    inHist,           \* history: every frame ever appended to input_buffer
    outHist,          \* history: every frame ever appended to output_buffer
    pullLog,          \* history: every frame popped by a pull, in lock order
    delivered,        \* history: number of frames sent in pull replies
    identityOnly,     \* history: every transform so far returned its input's values
    aborted,          \* history: words of pushes whose peer closed before the payload ended
    protoErr,         \* history: connections that met a truncated header or payload
    popHist,          \* history: every frame the loop popped from input_buffer
    iterations        \* history: number of completed iterations of the loop

serverVars == <<cfg, main_pc, model, running, buffer_lock, inFlightAtStop>>
bufVars == <<input_buffer, output_buffer>>
loopVars == <<prev_overlap, pl_pc, full_chunk, same_array, engine_used, output_chunk>>
connVars == <<hpc, num_samples, payload, samples, output_available, output_data>>
histVars == <<nextWord, inHist, outHist, pullLog, delivered, identityOnly, aborted, protoErr,
              popHist, iterations>>
vars == <<serverVars, bufVars, loopVars, connVars, histVars>>

\* the state __init__ leaves, for given settings
InitWith(settings) ==
    /\ cfg = settings
    /\ main_pc = "start"
    /\ model = "None"
    /\ running = FALSE
    /\ buffer_lock = "free"
    /\ inFlightAtStop = FALSE
    /\ input_buffer = <<>>
    /\ output_buffer = <<>>
    /\ prev_overlap = None
    /\ pl_pc = "off"
    /\ full_chunk = <<>>
    /\ same_array = FALSE
    /\ engine_used = "none"
    /\ output_chunk = <<>>
    /\ hpc = [c \in Conns |-> "none"]
    /\ num_samples = [c \in Conns |-> 0]
    /\ payload = [c \in Conns |-> <<>>]
    /\ samples = [c \in Conns |-> <<>>]
    /\ output_available = [c \in Conns |-> 0]
    /\ output_data = [c \in Conns |-> <<>>]
    /\ nextWord = 1
    /\ inHist = <<>>
    /\ outHist = <<>>
    /\ pullLog = <<>>
    /\ delivered = 0
    /\ identityOnly = TRUE
    /\ aborted = {}
    /\ protoErr = {}
    /\ popHist = <<>>
    /\ iterations = 0

\* __init__ with the settings of the program
Init == InitWith(ProgramConfig)

(* ------------------------------ start() ------------------------------- *)
\* load_model succeeds (primary or fallback model): start() sets running,
\* starts the processing thread and listens.
StartOk ==
    /\ main_pc = "start"
    /\ model' = "loaded"
    /\ running' = TRUE
    /\ pl_pc' = "while"
    /\ main_pc' = "accept"
    /\ UNCHANGED <<cfg, buffer_lock, inFlightAtStop, bufVars, prev_overlap, full_chunk, same_array,
                   engine_used, output_chunk, connVars, histVars>>

\* (fault: start() goes on to listen although load_model failed)
StartFailListens ==
    /\ main_pc = "start"
    /\ main_pc' = "accept"
    /\ running' = TRUE
    /\ pl_pc' = "while"
    /\ UNCHANGED <<model, cfg, buffer_lock, inFlightAtStop, bufVars, prev_overlap, full_chunk, same_array,
                   engine_used, output_chunk, connVars, histVars>>

\* load_model fails for both models (self.model stays None, or holds a model
\* that get_model returned and .to()/.eval() rejected): start() returns False
StartFail ==
    /\ main_pc = "start"
    /\ main_pc' = "failed"
    /\ model' \in {"None", "unready"}
    /\ UNCHANGED <<running, cfg, buffer_lock, inFlightAtStop, bufVars, loopVars, connVars, histVars>>

\* accept loop: one accepted connection gets its handler thread
\* (connections are numbered in the order they are accepted)
Accept(c) ==
    /\ main_pc = "accept"
    /\ running
    /\ hpc[c] = "none"
    /\ \A d \in 1..(c - 1) : hpc[d] # "none"
    /\ hpc' = [hpc EXCEPT ![c] = "while"]
    /\ UNCHANGED <<serverVars, bufVars, loopVars, num_samples, payload, samples,
                   output_available, output_data, histVars>>

\* KeyboardInterrupt in the accept loop: except, then
\* finally: running = False, server.close()
KeyboardInterrupt ==
    /\ main_pc = "accept"
    /\ main_pc' = "closed"
    /\ running' = FALSE
    /\ inFlightAtStop' = (inFlightAtStop \/ (running /\ pl_pc = "process"))
    /\ UNCHANGED <<model, cfg, buffer_lock, bufVars, loopVars, connVars, histVars>>

\* the accept loop's `while self.running` (reached again at the latest when
\* the 1.0 s accept timeout expires) sees running = False:
\* finally: running = False, server.close()
AcceptExit ==
    /\ main_pc = "accept"
    /\ ~running
    /\ main_pc' = "closed"
    /\ running' = FALSE
    /\ UNCHANGED <<model, cfg, buffer_lock, inFlightAtStop, bufVars, loopVars, connVars, histVars>>

\* stop()
stop ==
    /\ main_pc = "accept"
    /\ running
    /\ running' = FALSE
    /\ inFlightAtStop' = (inFlightAtStop \/ pl_pc = "process")
    /\ UNCHANGED <<main_pc, model, cfg, buffer_lock, bufVars, loopVars, connVars, histVars>>

(* -------------------------- processing_loop --------------------------- *)
\* while self.running
LoopWhile ==
    /\ pl_pc = "while"
    /\ pl_pc' = IF running THEN "len" ELSE "stopped"
    /\ UNCHANGED <<serverVars, bufVars, prev_overlap, full_chunk, same_array,
                   engine_used, output_chunk, connVars, histVars>>

\* the length an iteration needs before it pops
Threshold == chunk_samples

\* with buffer_lock: buffer_samples = len(input_buffer); then the test,
\* and time.sleep(0.01) when it fails
LoopLen ==
    /\ pl_pc = "len"
    /\ buffer_lock = "free"
    /\ pl_pc' = IF Len(input_buffer) >= Threshold THEN "pop" ELSE "while"
    /\ UNCHANGED <<serverVars, bufVars, prev_overlap, full_chunk, same_array,
                   engine_used, output_chunk, connVars, histVars>>

\* (fault: the first chunk gets no zero pad)
BuildChunkNoPad(prev, chunk) ==
    IF prev.set THEN prev.val \o chunk ELSE chunk
\* np.vstack([prev_overlap or zeros, chunk])
BuildChunk(prev, chunk) ==
    IF prev.set THEN prev.val \o chunk ELSE Zeros(overlap_samples) \o chunk

\* (fault: the lock taken for the pop is kept for the rest of the iteration)
LoopPopKeepsLock ==
    /\ pl_pc = "pop"
    /\ buffer_lock = "free"
    /\ IF hop_samples > 0 /\ Len(input_buffer) >= hop_samples
       THEN /\ input_buffer' = PopLeft(input_buffer, hop_samples)
            /\ full_chunk' = BuildChunk(prev_overlap, Popped(input_buffer, hop_samples))
            /\ popHist' = popHist \o Popped(input_buffer, hop_samples)
            /\ pl_pc' = "process"
       ELSE IF hop_samples > 0
       THEN /\ input_buffer' = <<>>
            /\ full_chunk' = <<>>
            /\ popHist' = popHist \o input_buffer
            /\ pl_pc' = "crashed"
       ELSE /\ full_chunk' = <<>>
            /\ pl_pc' = "crashed"
            /\ UNCHANGED <<input_buffer, popHist>>
    /\ buffer_lock' = "loop"
    /\ UNCHANGED <<cfg, main_pc, model, running, inFlightAtStop, output_buffer, prev_overlap,
                   same_array,
                   engine_used, output_chunk, connVars,
                   nextWord, inHist, outHist, pullLog, delivered, identityOnly, aborted,
                   protoErr, iterations>>

\* with buffer_lock: popleft hop_samples times (IndexError on an empty deque
\* ends the thread); then full_chunk is built.  With hop_samples <= 0 the
\* range is empty, chunk is an empty 1-d array and np.vstack raises
\* ValueError, which ends the thread as well.
LoopPop ==
    /\ pl_pc = "pop"
    /\ buffer_lock = "free"
    /\ IF hop_samples > 0 /\ Len(input_buffer) >= hop_samples
       THEN /\ input_buffer' = PopLeft(input_buffer, hop_samples)
            /\ full_chunk' = BuildChunk(prev_overlap, Popped(input_buffer, hop_samples))
            /\ popHist' = popHist \o Popped(input_buffer, hop_samples)
            /\ pl_pc' = "process"
       ELSE IF hop_samples > 0
       THEN /\ input_buffer' = <<>>
            /\ full_chunk' = <<>>
            /\ popHist' = popHist \o input_buffer
            /\ pl_pc' = "crashed"
       ELSE /\ full_chunk' = <<>>
            /\ pl_pc' = "crashed"
            /\ UNCHANGED <<input_buffer, popHist>>
    /\ UNCHANGED <<serverVars, output_buffer, prev_overlap, same_array,
                   engine_used, output_chunk, connVars,
                   nextWord, inHist, outHist, pullLog, delivered, identityOnly, aborted,
                   protoErr, iterations>>

\* the crossfade condition of the iteration
FadeApplies(prev, proc) == prev.set /\ Len(proc) > overlap_samples

\* processed after the crossfade step
Crossfade(prev, proc) == IF FadeApplies(prev, proc) THEN ApplyFade(proc) ELSE proc

\* (fault: the emitted part starts one frame early, inside the crossfade)
OutputPartEarly(proc) == Drop(proc, overlap_samples - 1)
\* the part of the transformed chunk that is emitted: processed[overlap_samples:]
OutputPart(proc) == Drop(proc, overlap_samples)

\* (fault: the head of the chunk is carried instead of its tail)
CarryTailHead(fc) == Take(fc, overlap_samples)
\* the frames carried to the next iteration: full_chunk[-overlap_samples:]
CarryTail(fc) == LastN(fc, overlap_samples)

\* (fault: the chunk in flight is dropped when running has been cleared)
LoopProcessCancelled ==
    /\ pl_pc = "process"
    /\ IF running
       THEN /\ \E e \in Engines :
                 LET faded == Crossfade(prev_overlap, process_audio(full_chunk, model, e))
                     fc == IF ReturnsInput(model, e) THEN faded ELSE full_chunk
                 IN /\ full_chunk' = fc
                    /\ same_array' = ReturnsInput(model, e)
                    /\ engine_used' = e
                    /\ identityOnly' = (identityOnly /\ e # "separate")
                    /\ prev_overlap' = Some(CarryTail(fc))
                    /\ output_chunk' = OutputPart(faded)
            /\ pl_pc' = "append"
       ELSE /\ pl_pc' = "stopped"
            /\ UNCHANGED <<full_chunk, same_array, engine_used, identityOnly,
                           prev_overlap, output_chunk>>
    /\ UNCHANGED <<serverVars, bufVars, connVars,
                   nextWord, inHist, outHist, pullLog, delivered, aborted, protoErr,
                   popHist, iterations>>

\* processed = process_audio(full_chunk); crossfade in place (which also
\* rewrites full_chunk when processed is that array); prev_overlap; output_chunk
LoopProcess ==
    /\ pl_pc = "process"
    /\ \E e \in Engines :
         LET faded == Crossfade(prev_overlap, process_audio(full_chunk, model, e))
             fc == IF ReturnsInput(model, e) THEN faded ELSE full_chunk
         IN /\ full_chunk' = fc
            /\ same_array' = ReturnsInput(model, e)
            /\ engine_used' = e
            /\ identityOnly' = (identityOnly /\ e # "separate")
            /\ prev_overlap' = Some(CarryTail(fc))
            /\ output_chunk' = OutputPart(faded)
    /\ pl_pc' = "append"
    /\ UNCHANGED <<serverVars, bufVars, connVars,
                   nextWord, inHist, outHist, pullLog, delivered, aborted, protoErr,
                   popHist, iterations>>

\* with buffer_lock: output_buffer.append(sample) for every sample
LoopAppend ==
    /\ pl_pc = "append"
    /\ buffer_lock = "free"
    /\ output_buffer' = output_buffer \o output_chunk
    /\ outHist' = outHist \o output_chunk
    /\ pl_pc' = "while"
    /\ full_chunk' = <<>>
    /\ output_chunk' = <<>>
    /\ same_array' = FALSE
    /\ engine_used' = "none"
    /\ iterations' = iterations + 1
    /\ UNCHANGED <<serverVars, input_buffer, prev_overlap, connVars,
                   nextWord, inHist, pullLog, delivered, identityOnly, aborted, protoErr,
                   popHist>>

(* --------------------------- handle_client ---------------------------- *)
\* while self.running
HWhile(c) ==
    /\ hpc[c] = "while"
    /\ hpc' = [hpc EXCEPT ![c] = IF running THEN "recv" ELSE "closed"]
    /\ UNCHANGED <<serverVars, bufVars, loopVars, num_samples, payload, samples,
                   output_available, output_data, histVars>>

\* the words a peer sends for a push of n frames
PeerWords(first, n) == [i \in 1..(CHANNELS * n) |-> (first + i - 1) * FadeDen]
FramesSent == (nextWord - 1) \div CHANNELS
\* the frames of a payload in wire order
WireFrames(p) == [i \in 1..(Len(p) \div 2) |-> <<p[2 * i - 1], p[2 * i]>>]

\* header = conn.recv(4) returns nothing or fewer than 4 bytes: break
HShortHeader(c) ==
    /\ hpc[c] = "recv"
    /\ hpc' = [hpc EXCEPT ![c] = "closed"]
    /\ protoErr' = protoErr \cup {c}
    /\ UNCHANGED <<serverVars, bufVars, loopVars, num_samples, payload, samples,
                   output_available, output_data,
                   nextWord, inHist, outHist, pullLog, delivered, identityOnly, aborted,
                   popHist, iterations>>

data_size(n) == n * CHANNELS * BYTES_PER_SAMPLE
\* len(audio_data) when the recv loop ends: any length up to data_size, of
\* which one of each kind is taken (nothing, whole frames but one short, all
\* but one byte, everything)
RecvLengths(n) ==
    {0, data_size(n) - CHANNELS * BYTES_PER_SAMPLE, data_size(n) - 1, data_size(n)}

\* (fault: only an empty payload ends the connection)
PayloadCompleteLoose(got, n) == got > 0
\* whether the recv loop ended with the whole payload
PayloadComplete(got, n) == ~(got < data_size(n))

\* the words of a payload
WordsOf(p) == {p[i] : i \in 1..Len(p)}

\* (fault: a short read stops the whole server)
HReceiveAudioFatal(c) ==
    /\ hpc[c] = "recv"
    /\ \E n \in 1..MaxPush : \E got \in RecvLengths(n) :
         LET sent == PeerWords(nextWord, n)
             received == Reshape(FromBuffer(sent, got))
         IN /\ FramesSent + n <= MaxFrames
            /\ nextWord' = nextWord + CHANNELS * n
            /\ aborted' = IF got < data_size(n) THEN aborted \cup WordsOf(sent) ELSE aborted
            /\ IF PayloadComplete(got, n)
               THEN /\ buffer_lock = "free"
                    /\ num_samples' = [num_samples EXCEPT ![c] = n]
                    /\ payload' = [payload EXCEPT ![c] = sent]
                    /\ samples' = [samples EXCEPT ![c] = received]
                    /\ input_buffer' = input_buffer \o received
                    /\ inHist' = inHist \o received
                    /\ hpc' = [hpc EXCEPT ![c] = "ack"]
                    /\ UNCHANGED <<protoErr, running>>
               ELSE /\ hpc' = [hpc EXCEPT ![c] = "closed"]
                    /\ protoErr' = protoErr \cup {c}
                    /\ running' = FALSE
                    /\ UNCHANGED <<num_samples, payload, samples, input_buffer, inHist>>
    /\ UNCHANGED <<main_pc, model, cfg, buffer_lock, inFlightAtStop, output_buffer, loopVars,
                   output_available, output_data,
                   outHist, pullLog, delivered, identityOnly, popHist, iterations>>

\* (fault: the handler acknowledges without appending)
HReceiveAudioNoAppend(c) ==
    /\ hpc[c] = "recv"
    /\ \E n \in 1..MaxPush :
         /\ FramesSent + n <= MaxFrames
         /\ nextWord' = nextWord + CHANNELS * n
         /\ num_samples' = [num_samples EXCEPT ![c] = n]
         /\ payload' = [payload EXCEPT ![c] = PeerWords(nextWord, n)]
         /\ samples' = [samples EXCEPT ![c] = Reshape(PeerWords(nextWord, n))]
         /\ hpc' = [hpc EXCEPT ![c] = "ack"]
    /\ UNCHANGED <<serverVars, bufVars, loopVars, output_available, output_data,
                   inHist, outHist, pullLog, delivered, identityOnly, aborted, protoErr,
                   popHist, iterations>>

\* a header n other than 0 and 0xFFFFFFFF; the recv loop of the payload, in
\* which got bytes arrive before the peer closes or all have arrived; short:
\* break; else samples = frombuffer(...).reshape(...) and
\* with buffer_lock: input_buffer.append(sample) for every sample
HReceiveAudio(c) ==
    /\ hpc[c] = "recv"
    /\ \E n \in 1..MaxPush : \E got \in RecvLengths(n) :
         LET sent == PeerWords(nextWord, n)
             received == Reshape(FromBuffer(sent, got))
         IN /\ FramesSent + n <= MaxFrames
            /\ nextWord' = nextWord + CHANNELS * n
            /\ aborted' = IF got < data_size(n) THEN aborted \cup WordsOf(sent) ELSE aborted
            /\ IF PayloadComplete(got, n)
               THEN /\ buffer_lock = "free"
                    /\ num_samples' = [num_samples EXCEPT ![c] = n]
                    /\ payload' = [payload EXCEPT ![c] = sent]
                    /\ samples' = [samples EXCEPT ![c] = received]
                    /\ input_buffer' = input_buffer \o received
                    /\ inHist' = inHist \o received
                    /\ hpc' = [hpc EXCEPT ![c] = "ack"]
                    /\ UNCHANGED protoErr
               ELSE /\ hpc' = [hpc EXCEPT ![c] = "closed"]
                    /\ protoErr' = protoErr \cup {c}
                    /\ UNCHANGED <<num_samples, payload, samples, input_buffer, inHist>>
    /\ UNCHANGED <<serverVars, output_buffer, loopVars, output_available, output_data,
                   outHist, pullLog, delivered, identityOnly, popHist, iterations>>

\* the reply to a push: struct.pack('<I', len(samples))
AckReply(c) == Len(samples[c])

\* conn.sendall(ack)
HAck(c) ==
    /\ hpc[c] = "ack"
    /\ samples' = [samples EXCEPT ![c] = <<>>]
    /\ num_samples' = [num_samples EXCEPT ![c] = 0]
    /\ payload' = [payload EXCEPT ![c] = <<>>]
    /\ hpc' = [hpc EXCEPT ![c] = "while"]
    /\ UNCHANGED <<serverVars, bufVars, loopVars, output_available, output_data, histVars>>

\* (fault: the heartbeat reads the other buffer)
HeartbeatValueInput == Len(input_buffer)
\* the length a heartbeat reads
HeartbeatValue == Len(output_buffer)

\* (fault: the heartbeat takes the frames it counts)
HHeartbeatPops(c) ==
    /\ hpc[c] = "recv"
    /\ buffer_lock = "free"
    /\ output_available' = [output_available EXCEPT ![c] = HeartbeatValue]
    /\ output_buffer' = <<>>
    /\ hpc' = [hpc EXCEPT ![c] = "hb_send"]
    /\ UNCHANGED <<serverVars, input_buffer, loopVars, num_samples, payload, samples,
                   output_data, histVars>>

\* a header 0; with buffer_lock: output_available = len(output_buffer)
HHeartbeat(c) ==
    /\ hpc[c] = "recv"
    /\ buffer_lock = "free"
    /\ output_available' = [output_available EXCEPT ![c] = HeartbeatValue]
    /\ hpc' = [hpc EXCEPT ![c] = "hb_send"]
    /\ UNCHANGED <<serverVars, bufVars, loopVars, num_samples, payload, samples,
                   output_data, histVars>>

\* the reply to a heartbeat: struct.pack('<I', output_available)
HeartbeatReply(c) == output_available[c]

\* conn.sendall(heartbeat reply)
HHbSend(c) ==
    /\ hpc[c] = "hb_send"
    /\ output_available' = [output_available EXCEPT ![c] = 0]
    /\ hpc' = [hpc EXCEPT ![c] = "while"]
    /\ UNCHANGED <<serverVars, bufVars, loopVars, num_samples, payload, samples,
                   output_data, histVars>>

\* (fault: the pull takes everything there is)
AvailableAll(buf) == Len(buf)
\* available = min(4096, len(output_buffer))
Available(buf) == Min(PULL_MAX, Len(buf))

\* (fault: the pull takes its frames from the input buffer)
HPullInput(c) ==
    /\ hpc[c] = "recv"
    /\ buffer_lock = "free"
    /\ output_data' = [output_data EXCEPT ![c] = Popped(input_buffer, Available(input_buffer))]
    /\ input_buffer' = PopLeft(input_buffer, Available(input_buffer))
    /\ pullLog' = pullLog \o Popped(input_buffer, Available(input_buffer))
    /\ hpc' = [hpc EXCEPT ![c] = "pull_send"]
    /\ UNCHANGED <<serverVars, output_buffer, loopVars, num_samples, payload, samples,
                   output_available,
                   nextWord, inHist, outHist, delivered, identityOnly, aborted, protoErr,
                   popHist, iterations>>

\* a header 0xFFFFFFFF; with buffer_lock: pop `available` frames from the
\* head of output_buffer
HPull(c) ==
    /\ hpc[c] = "recv"
    /\ buffer_lock = "free"
    /\ output_data' = [output_data EXCEPT ![c] = Popped(output_buffer, Available(output_buffer))]
    /\ output_buffer' = PopLeft(output_buffer, Available(output_buffer))
    /\ pullLog' = pullLog \o Popped(output_buffer, Available(output_buffer))
    /\ hpc' = [hpc EXCEPT ![c] = "pull_send"]
    /\ UNCHANGED <<serverVars, input_buffer, loopVars, num_samples, payload, samples,
                   output_available,
                   nextWord, inHist, outHist, delivered, identityOnly, aborted, protoErr,
                   popHist, iterations>>

\* the reply to a pull: the count, then the frames as interleaved words
PullReply(c) == [count |-> Len(output_data[c]), words |-> ToWords(output_data[c])]

\* conn.sendall(count); conn.sendall(output_data.astype(np.float32).tobytes())
HPullSend(c) ==
    /\ hpc[c] = "pull_send"
    /\ delivered' = delivered + PullReply(c).count
    /\ output_data' = [output_data EXCEPT ![c] = <<>>]
    /\ hpc' = [hpc EXCEPT ![c] = "while"]
    /\ UNCHANGED <<serverVars, bufVars, loopVars, num_samples, payload, samples,
                   output_available,
                   nextWord, inHist, outHist, pullLog, identityOnly, aborted, protoErr,
                   popHist, iterations>>

\* sendall raises because the peer is gone: except / finally: conn.close()
HSendFails(c) ==
    /\ hpc[c] \in {"ack", "hb_send", "pull_send"}
    /\ hpc' = [hpc EXCEPT ![c] = "closed"]
    /\ samples' = [samples EXCEPT ![c] = <<>>]
    /\ output_data' = [output_data EXCEPT ![c] = <<>>]
    /\ output_available' = [output_available EXCEPT ![c] = 0]
    /\ num_samples' = [num_samples EXCEPT ![c] = 0]
    /\ payload' = [payload EXCEPT ![c] = <<>>]
    /\ UNCHANGED <<serverVars, bufVars, loopVars, histVars>>

Next ==
    \/ StartOk
    \/ StartFail
    \/ \E c \in Conns : Accept(c)
    \/ KeyboardInterrupt
    \/ AcceptExit
    \/ stop
    \/ LoopWhile
    \/ LoopLen
    \/ LoopPop
    \/ LoopProcess
    \/ LoopAppend
    \/ \E c \in Conns : HWhile(c)
    \/ \E c \in Conns : HShortHeader(c)
    \/ \E c \in Conns : HReceiveAudio(c)
    \/ \E c \in Conns : HAck(c)
    \/ \E c \in Conns : HHeartbeat(c)
    \/ \E c \in Conns : HHbSend(c)
    \/ \E c \in Conns : HPull(c)
    \/ \E c \in Conns : HPullSend(c)
    \/ \E c \in Conns : HSendFails(c)

Spec == Init /\ [][Next]_vars

\* the server constructed from any of the settings
ConfigInit == \E settings \in Configs : InitWith(settings)
ConfigSpec == ConfigInit /\ [][Next]_vars

\* The threads of the server are scheduled fairly: a step of the processing
\* thread or of the accept loop that stays possible is eventually taken (the
\* engine call returns or raises, the lock is granted, the accept timeout
\* expires).  Nothing is assumed of the peers, of stop() or of Ctrl-C.
LoopStep == LoopWhile \/ LoopLen \/ LoopPop \/ LoopProcess \/ LoopAppend
FairSpec == Spec /\ WF_vars(LoopStep) /\ WF_vars(AcceptExit)

(* ------------------------------ properties ---------------------------- *)
IsPrefix(s, t) == Len(s) <= Len(t) /\ SubSeq(t, 1, Len(s)) = s
\* seg occurs in s as a run of consecutive elements
IsSegment(seg, s) ==
    \E k \in 0..(Len(s) - Len(seg)) : SubSeq(s, k + 1, k + Len(seg)) = seg
FramesOf(s) == {s[i] : i \in 1..Len(s)}

\* Every push is complete, the loop is running and idle with too little input
\* to start an iteration, the output is pulled empty and every popped frame
\* was sent: nothing more is delivered unless more frames are pushed.
Drained ==
    /\ running
    /\ pl_pc \in {"while", "len"}
    /\ Len(input_buffer) < Threshold
    /\ output_buffer = <<>>
    /\ \A c \in Conns : hpc[c] \notin {"ack", "pull_send"}
    /\ delivered = Len(pullLog)

\* C1 (conservation): once pushes totalling N frames, N a positive multiple of
\* hop_samples, are complete and the server has drained, the pull replies have
\* delivered exactly N frames.
C1_Conservation ==
    (Drained /\ Len(inHist) > 0 /\ Len(inHist) % hop_samples = 0)
        => delivered = Len(inHist)

\* C2 (identity round trip): while every transform returned its input's
\* values, the frames ever appended to the output are a prefix of the frames
\* ever appended to the input, frame for frame.
C2_IdentityRoundTrip == identityOnly => IsPrefix(outHist, inHist)

\* two iterations done under identity (the second one crossfaded), with
\* input still waiting
C2_Witness ==
    /\ identityOnly
    /\ Len(outHist) >= 2 * hop_samples
    /\ Len(inHist) > Len(outHist)

\* C3 (no loss or duplication on delivery): the frames popped by pulls, in
\* the order the pulls took the lock, followed by the frames still in the
\* output buffer, are exactly the frames ever appended to it; no frame is
\* popped twice; and every reply in flight is a run of consecutive popped
\* frames, disjoint from every other reply in flight.
C3_NoLossNoDup ==
    /\ outHist = pullLog \o output_buffer
    /\ \A i, j \in 1..Len(pullLog) : i # j => pullLog[i] # pullLog[j]
    /\ \A c \in Conns : IsSegment(output_data[c], pullLog)
    /\ \A c, d \in Conns :
         c # d => FramesOf(output_data[c]) \cap FramesOf(output_data[d]) = {}

\* two connections hold non-empty pull replies at once, taken from the
\* output of more than one iteration
C3_Witness ==
    /\ \E c, d \in Conns :
         /\ c # d
         /\ hpc[c] = "pull_send" /\ output_data[c] # <<>>
         /\ hpc[d] = "pull_send" /\ output_data[d] # <<>>
    /\ Len(pullLog) > hop_samples

\* C4 (partial push rejection): no word of a push whose peer closed before
\* the payload was complete is ever appended to the input buffer or held for
\* appending, and a connection that met a short read is closed for good
\* (so it sends no acknowledgement).
C4_PartialPushRejected ==
    /\ \A f \in FramesOf(inHist) : f[1] \notin aborted /\ f[2] \notin aborted
    /\ \A c \in Conns : \A f \in FramesOf(samples[c]) : f[1] \notin aborted /\ f[2] \notin aborted
    /\ \A c \in protoErr : hpc[c] = "closed" /\ samples[c] = <<>>

\* a push was cut short, and a push declared after it was committed
C4_Witness ==
    \E w \in aborted : \E f \in FramesOf(inHist) : f[1] > w

\* C5 (pull cap): the step that serves a pull removes exactly the first
\* min(PULL_MAX, length) frames of the output buffer, never more than
\* PULL_MAX; the reply's count is that number and its data are those frames
\* (no data when the count is 0).
C5_PullCap ==
    [][\A c \in Conns :
         (hpc[c] = "recv" /\ hpc'[c] = "pull_send") =>
            LET n == Len(output_buffer)
                k == IF n < PULL_MAX THEN n ELSE PULL_MAX
            IN /\ output_data'[c] = SubSeq(output_buffer, 1, k)
               /\ output_buffer' = SubSeq(output_buffer, k + 1, n)
               /\ PullReply(c)'.count = k
               /\ Len(PullReply(c)'.words) = CHANNELS * k
               /\ \A i \in 1..k : /\ PullReply(c)'.words[CHANNELS * i - 1] = output_buffer[i][1]
                                  /\ PullReply(c)'.words[CHANNELS * i] = output_buffer[i][2]
      ]_vars

\* a pull took PULL_MAX frames and left some behind
C5_Witness ==
    \E c \in Conns :
        /\ hpc[c] = "pull_send"
        /\ Len(output_data[c]) = PULL_MAX
        /\ output_buffer # <<>>

\* C6 (heartbeat is non-destructive): no step of a heartbeat (the read under
\* the lock, the reply) changes the output buffer, the input buffer or the
\* carried overlap.
C6_HeartbeatNonDestructive ==
    [][\A c \in Conns :
         (\/ hpc[c] = "recv" /\ hpc'[c] = "hb_send"
          \/ hpc[c] = "hb_send" /\ hpc'[c] # "hb_send") =>
            /\ output_buffer' = output_buffer
            /\ input_buffer' = input_buffer
            /\ prev_overlap' = prev_overlap
      ]_vars

\* a heartbeat has read a non-empty output buffer, with input waiting and an
\* overlap carried
C6_Witness ==
    \E c \in Conns :
        /\ hpc[c] = "hb_send"
        /\ output_available[c] > 0
        /\ output_buffer # <<>>
        /\ input_buffer # <<>>
        /\ prev_overlap.set

\* C7 (heartbeat value): the count a heartbeat replies is the number of frames
\* appended to the output buffer minus the number pulled, at the step that
\* reads it under the lock; it is 0 when no push has been appended yet.
C7_HeartbeatValue ==
    [][\A c \in Conns :
         (hpc[c] = "recv" /\ hpc'[c] = "hb_send") =>
            /\ HeartbeatReply(c)' = Len(outHist) - Len(pullLog)
            /\ (inHist = <<>> => HeartbeatReply(c)' = 0)
      ]_vars

\* a heartbeat reply counts frames left after some were pulled
C7_Witness ==
    \E c \in Conns :
        /\ hpc[c] = "hb_send"
        /\ output_available[c] > 0
        /\ pullLog # <<>>

\* C8 (push acknowledgement): the step that commits a push appends the n
\* declared frames, in wire order, to the tail of the input buffer; a handler
\* about to acknowledge replies n, and its n frames are already in the frames
\* ever appended, in wire order.
C8_PushAck ==
    [][/\ \A c \in Conns :
            (hpc[c] = "recv" /\ hpc'[c] = "ack") =>
               /\ Len(WireFrames(payload'[c])) = num_samples'[c]
               /\ input_buffer' = input_buffer \o WireFrames(payload'[c])
       /\ \A c \in Conns :
            hpc'[c] = "ack" =>
               /\ AckReply(c)' = num_samples'[c]
               /\ IsSegment(WireFrames(payload'[c]), inHist')
      ]_vars

\* a full-size push is about to be acknowledged, appended behind earlier frames
C8_Witness ==
    \E c \in Conns :
        /\ hpc[c] = "ack"
        /\ num_samples[c] = MaxPush
        /\ Len(inHist) > MaxPush

\* C9 (protocol-error isolation): the step in which a handler ends on a
\* truncated header or a short payload changes neither the running flag, nor
\* the listener, nor the processing loop's position, nor the buffers, nor any
\* other handler; and while the server runs after such an end, the listener
\* can accept the next connection and the processing loop can step.
C9_ErrorIsolation ==
    [][/\ \A c \in Conns :
            (hpc[c] = "recv" /\ hpc'[c] = "closed") =>
               /\ running' = running
               /\ main_pc' = main_pc
               /\ pl_pc' = pl_pc
               /\ input_buffer' = input_buffer
               /\ output_buffer' = output_buffer
               /\ \A d \in Conns \ {c} : hpc'[d] = hpc[d]
       /\ (protoErr # {} /\ running /\ main_pc = "accept") =>
               /\ \A d \in Conns :
                    (hpc[d] = "none" /\ \A e \in 1..(d - 1) : hpc[e] # "none")
                        => ENABLED Accept(d)
               /\ pl_pc \in {"while", "len", "pop", "process", "append"}
               /\ ENABLED (LoopWhile \/ LoopLen \/ LoopPop \/ LoopProcess \/ LoopAppend)
      ]_vars

\* one connection ended on a protocol error; the server runs, another
\* connection is being served a pull and the loop has a chunk in flight
C9_Witness ==
    /\ protoErr # {}
    /\ running
    /\ main_pc = "accept"
    /\ pl_pc = "process"
    /\ \E d \in Conns \ protoErr : hpc[d] = "pull_send" /\ output_data[d] # <<>>

\* C10 (transform-failure passthrough): when the engine fails, the adapter
\* returns the chunk it was given; the iteration's output is the hop_samples
\* frames of that chunk from index overlap_samples on, which are frames of the
\* input; the append step puts exactly them on the output buffer and the loop
\* returns to its loop head; the loop never ends on an error.
C10_FailurePassthrough ==
    [][/\ pl_pc' # "crashed"
       /\ (pl_pc = "process" => process_audio(full_chunk, model, "raise") = full_chunk)
       /\ (pl_pc' = "append" /\ engine_used' = "raise") =>
               /\ Len(full_chunk') = chunk_samples
               /\ Len(output_chunk') = hop_samples
               /\ output_chunk' = SubSeq(full_chunk', overlap_samples + 1, chunk_samples)
               /\ IsSegment(output_chunk', inHist')
       /\ (pl_pc = "append" /\ engine_used = "raise" /\ pl_pc' # pl_pc) =>
               /\ pl_pc' = "while"
               /\ output_buffer' = output_buffer \o output_chunk
               /\ Len(outHist') = Len(outHist) + hop_samples
      ]_vars

\* the engine failed on a chunk that is not the first one
C10_Witness ==
    /\ pl_pc = "append"
    /\ engine_used = "raise"
    /\ outHist # <<>>

\* C11 (startup failure is fatal): when load_model has not succeeded, running
\* is not set, the processing loop is not started and no connection is
\* accepted; after start() has returned failure this stays so (no step is
\* possible from there), and every accepted connection finds a loaded model.
C11_StartupFailureFatal ==
    /\ model # "loaded" =>
            /\ main_pc \in {"start", "failed"}
            /\ ~running
            /\ pl_pc = "off"
            /\ \A c \in Conns : hpc[c] = "none"
    /\ main_pc = "failed" =>
            /\ model # "loaded"
            /\ ~ENABLED Next

\* start() has returned failure, the second attempt leaving a model behind
C11_Witness ==
    /\ main_pc = "failed"
    /\ model = "unready"

\* C12 (idle -> running threshold): whenever the server is running, the loop
\* is idle and the input buffer holds at least hop_samples frames, the loop
\* eventually has popped hop_samples frames and is processing them (or the
\* server has been shut down meanwhile).
C12_HopThreshold ==
    (running /\ pl_pc \in {"while", "len"} /\ Len(input_buffer) >= hop_samples)
        ~> (pl_pc = "process" \/ ~running)

\* C13 (atomic check-and-pop): between the loop's length check and the pop it
\* guards, no connection handler takes the buffer lock (for a push, a pull or
\* a heartbeat).
C13_AtomicCheckAndPop ==
    [][pl_pc = "pop" =>
         \A c \in Conns :
            ~(hpc[c] = "recv" /\ hpc'[c] \in {"ack", "pull_send", "hb_send"})
      ]_vars

\* the loop is between two iterations (or not running one)
BetweenIterations == pl_pc \in {"off", "while", "len", "pop", "stopped"}

\* C14 (one hop per iteration): between iterations, the frames ever appended
\* to the output buffer and the frames ever popped from the input buffer both
\* number hop_samples times the completed iterations, the first one included;
\* inside an iteration exactly one more hop is popped and, once transformed,
\* exactly hop_samples frames wait to be appended; the pops are what left the
\* input buffer and the appends what entered the output buffer; no emitted
\* frame is a frame of the zero pad.
C14_OneHopPerIteration ==
    /\ BetweenIterations =>
            /\ Len(popHist) = hop_samples * iterations
            /\ Len(outHist) = hop_samples * iterations
    /\ pl_pc \in {"process", "append"} =>
            /\ Len(popHist) = hop_samples * (iterations + 1)
            /\ Len(outHist) = hop_samples * iterations
    /\ pl_pc = "append" => Len(output_chunk) = hop_samples
    /\ Len(input_buffer) = Len(inHist) - Len(popHist)
    /\ Len(output_buffer) = Len(outHist) - Len(pullLog)
    /\ \A f \in FramesOf(outHist) \cup FramesOf(output_chunk) : f # <<0, 0>>

\* the first and a later iteration are complete and the loop is idle again
C14_Witness ==
    /\ iterations >= 2
    /\ pl_pc = "len"
    /\ Len(outHist) = hop_samples * iterations

\* the source frame with (1-based) index j of the consumed stream; zero before it
SourceAt(j) == IF j <= 0 THEN <<0, 0>> ELSE popHist[j]
\* the source frames (k*hop - overlap, (k+1)*hop], k counted from 0
SourceWindow(k) ==
    [i \in 1..chunk_samples |-> SourceAt(k * hop_samples - overlap_samples + i)]
\* the last overlap_samples source frames of the chunk of iteration k
SourceTail(k) ==
    [i \in 1..overlap_samples |-> SourceAt((k + 1) * hop_samples - overlap_samples + i)]
\* number of chunks whose tail has been stored
ChunksCarried == IF pl_pc = "append" THEN iterations + 1 ELSE iterations

\* C15 (chunk formation and overlap carry): the input chunk of iteration k
\* (k = completed iterations, from 0) has chunk_samples frames and is the
\* carried tail (the zero pad on the first iteration) followed by the popped
\* frames, which makes it the source frames (k*hop - overlap, (k+1)*hop] with
\* zero before the stream; the carried tail is unset before the first chunk
\* and afterwards the last overlap_samples frames of the previous input
\* chunk, whatever the transform returned.
C15_ChunkFormation ==
    /\ pl_pc = "process" =>
            /\ Len(full_chunk) = chunk_samples
            /\ full_chunk =
                 (IF iterations = 0 THEN Zeros(overlap_samples) ELSE prev_overlap.val)
                    \o SubSeq(popHist, Len(popHist) - hop_samples + 1, Len(popHist))
            /\ full_chunk = SourceWindow(iterations)
    /\ prev_overlap.set <=> ChunksCarried > 0
    /\ prev_overlap.set => prev_overlap.val = SourceTail(ChunksCarried - 1)

\* the second chunk is formed after a transform that changed the first
C15_Witness ==
    /\ pl_pc = "process"
    /\ iterations = 1
    /\ ~identityOnly

\* the frames in the order the input buffer has handed or will hand them to
\* the loop
InputStream == popHist \o input_buffer

\* C16 (per-connection input order): a peer's words are numbered in the order
\* its handler receives them, which is the order the connection sent them.
\* Under every interleaving of the handlers the frames consumed by the loop
\* followed by the frames waiting in the input buffer are the frames of the
\* committed pushes in commit order, with strictly increasing word numbers
\* (so no two frames of one connection are out of order), and every push
\* awaiting its acknowledgement sits in that stream unbroken, in wire order.
C16_PerConnectionOrder ==
    /\ InputStream = inHist
    /\ \A i, j \in 1..Len(InputStream) :
          i < j => InputStream[i][2] < InputStream[j][1]
    /\ \A i \in 1..Len(InputStream) : InputStream[i][1] < InputStream[i][2]
    /\ \A c \in Conns :
          hpc[c] = "ack" => IsSegment(WireFrames(payload[c]), InputStream)

\* two connections have pushes committed and not yet acknowledged at once,
\* the later accepted one first, while the loop has already consumed frames
C16_Witness ==
    /\ \A c \in {1, 2} : hpc[c] = "ack" /\ payload[c] # <<>>
    /\ payload[2][1] < payload[1][1]
    /\ popHist # <<>>
    /\ input_buffer # <<>>

\* running has been cleared after the server was started
ShutDown == ~running /\ main_pc \in {"accept", "closed"}

C19_ConfigValid ==
    /\ running => hop_samples > 0
    /\ hop_samples <= 0 => main_pc = "start" /\ pl_pc = "off"

\* C20 (the fade-in never changes an emitted frame): in the step that
\* transforms a chunk, the crossfade leaves every index from overlap_samples
\* on as the engine (or the passthrough) returned it, and the frames set
\* aside for the output are exactly those of the transform's result at the
\* indices overlap_samples .. chunk_samples - 1; the append step puts them
\* on the output buffer unchanged.  First iteration and later ones alike.
C20_FadeNeverEmitted ==
    [][/\ (pl_pc = "process" /\ pl_pc' = "append") =>
            LET raw == process_audio(full_chunk, model, engine_used')
                processed == Crossfade(prev_overlap, raw)
            IN /\ Len(processed) = Len(raw)
               /\ \A i \in (overlap_samples + 1)..Len(raw) : processed[i] = raw[i]
               /\ output_chunk' = SubSeq(raw, overlap_samples + 1, chunk_samples)
       /\ (pl_pc = "append" /\ pl_pc' = "while") =>
            /\ outHist' = outHist \o output_chunk
            /\ output_buffer' = output_buffer \o output_chunk
      ]_vars

\* a chunk after the first has been transformed by the engine and
\* crossfaded, and its output part waits to be appended
C20_Witness ==
    /\ pl_pc = "append"
    /\ iterations >= 1
    /\ engine_used = "separate"
    /\ Len(output_chunk) = hop_samples

\* C21 (the input buffer never underflows): under every interleaving of the
\* loop and the handlers, when the loop is about to pop, the input buffer
\* holds at least the length its check saw, hence at least hop_samples
\* frames, and the loop never ends on an empty deque; the input buffer
\* shrinks only in the loop's pop step, by exactly hop_samples frames, and
\* every step of a handler leaves it as long or longer.
C21_NoUnderflow ==
    /\ [](/\ pl_pc # "crashed"
          /\ pl_pc = "pop" =>
                /\ Len(input_buffer) >= Threshold
                /\ Len(input_buffer) >= hop_samples)
    /\ [][/\ Len(input_buffer') < Len(input_buffer) =>
                /\ pl_pc = "pop"
                /\ pl_pc' = "process"
                /\ Len(input_buffer) >= hop_samples
                /\ Len(input_buffer') = Len(input_buffer) - hop_samples
          /\ (pl_pc = "pop" /\ pl_pc' = "pop") =>
                /\ Len(input_buffer') >= Len(input_buffer)
                /\ IsPrefix(input_buffer, input_buffer')
         ]_vars

\* the loop has popped for a later iteration from a buffer that had grown
\* past the length the check needed, while a handler had just committed a push
C21_Witness ==
    /\ pl_pc = "process"
    /\ iterations >= 1
    /\ input_buffer # <<>>
    /\ \E c \in Conns : hpc[c] = "ack"

====
